---- MODULE Spec2Model ----
(***************************************************************************)
(* UX570 Importer: the filename codec, folder and file discovery, the      *)
(* checksum subsystem and the transfer engine (import_file / import_files) *)
(* of ux570_importer/core.py and ux570_importer/checksum.py, and the       *)
(* ImportWorker thread of ux570_importer/gui/main_window.py, over an       *)
(* explicit model of the source and the destination file trees.            *)
(*                                                                         *)
(* Python strings are sequences of one-character strings, so that the      *)
(* substring tests, splits and slices of the code are computed as the code *)
(* computes them.  File contents are sequences of small integers (bytes).  *)
(***************************************************************************)
EXTENDS Integers, Sequences, FiniteSets, TLC

(***************************************************************************)
(* Bounds of the model.                                                    *)
(***************************************************************************)
\* longest list of files handed to import_files
MaxFiles == 2
\* number of import_files runs in a behaviour
MaxCalls == 2
\* number of I/O errors the environment raises in a behaviour
MaxFaults == 1

(***************************************************************************)
(* Python string helpers.                                                  *)
(***************************************************************************)
\* None, for the operators whose other results are non-empty sequences
NoneValue == <<>>

Digits == {"0","1","2","3","4","5","6","7","8","9"}

DigitVal(c) ==
    CASE c = "0" -> 0 [] c = "1" -> 1 [] c = "2" -> 2 [] c = "3" -> 3
      [] c = "4" -> 4 [] c = "5" -> 5 [] c = "6" -> 6 [] c = "7" -> 7
      [] c = "8" -> 8 [] c = "9" -> 9

\* s[a:b] of Python with 0 <= a <= b, clipped to the length of s
Slice(s, a, b) ==
    SubSeq(s, a + 1, IF b < Len(s) THEN b ELSE Len(s))

\* sub in s
Contains(s, sub) ==
    \E k \in 1..(Len(s) - Len(sub) + 1) : SubSeq(s, k, k + Len(sub) - 1) = sub

\* s.find(sub) + 1, and 0 when sub does not occur in s
FindFirst(s, sub) ==
    IF Contains(s, sub)
    THEN CHOOSE k \in 1..(Len(s) - Len(sub) + 1) :
            /\ SubSeq(s, k, k + Len(sub) - 1) = sub
            /\ \A j \in 1..(k - 1) : SubSeq(s, j, j + Len(sub) - 1) # sub
    ELSE 0

\* s.rfind(c) + 1 for a single character c, and 0 when c does not occur
RFindChar(s, c) ==
    IF \E k \in 1..Len(s) : s[k] = c
    THEN CHOOSE k \in 1..Len(s) : s[k] = c /\ \A j \in (k + 1)..Len(s) : s[j] # c
    ELSE 0

\* s.split(sep)[0]
SplitFirst(s, sep) ==
    IF Contains(s, sep) THEN SubSeq(s, 1, FindFirst(s, sep) - 1) ELSE s

\* s.strip() for the whitespace characters of the model (space, newline)
Whitespace == {" ", "\n"}

RECURSIVE LStrip(_)
LStrip(s) ==
    IF s # <<>> /\ Head(s) \in Whitespace THEN LStrip(Tail(s)) ELSE s

RECURSIVE RStrip(_)
RStrip(s) ==
    IF s # <<>> /\ s[Len(s)] \in Whitespace THEN RStrip(SubSeq(s, 1, Len(s) - 1)) ELSE s

Strip(s) == RStrip(LStrip(s))

\* s.split()[0]: the first whitespace-delimited token; the empty sequence
\* stands for the IndexError of a string without any token
FirstToken(s) ==
    LET t == LStrip(s)
    IN  IF t = <<>> THEN <<>>
        ELSE IF \E k \in 1..Len(t) : t[k] \in Whitespace
             THEN SubSeq(t, 1, (CHOOSE k \in 1..Len(t) :
                                   /\ t[k] \in Whitespace
                                   /\ \A j \in 1..(k - 1) : t[j] \notin Whitespace) - 1)
             ELSE t

\* s.lower() on the characters of a hex digest or of a file extension
LowerChar(c) ==
    CASE c = "A" -> "a" [] c = "B" -> "b" [] c = "C" -> "c"
      [] c = "D" -> "d" [] c = "E" -> "e" [] c = "F" -> "f"
      [] c = "M" -> "m" [] c = "P" -> "p" [] c = "T" -> "t"
      [] c = "V" -> "v" [] c = "W" -> "w" [] c = "X" -> "x"
      [] OTHER -> c

Lower(s) == [k \in 1..Len(s) |-> LowerChar(s[k])]

RECURSIVE DecimalValue(_)
DecimalValue(s) ==
    IF s = <<>> THEN 0
    ELSE 10 * DecimalValue(SubSeq(s, 1, Len(s) - 1)) + DigitVal(s[Len(s)])

\* int(s): surrounding whitespace is stripped, one sign is accepted, the
\* rest must be a non-empty run of decimal digits; ValueError otherwise.
IntSigned(s) == Strip(s) # <<>> /\ Head(Strip(s)) \in {"+", "-"}

IntBody(s) == IF IntSigned(s) THEN Tail(Strip(s)) ELSE Strip(s)

IntRaisesValueError(s) ==
    IntBody(s) = <<>> \/ \E k \in 1..Len(IntBody(s)) : IntBody(s)[k] \notin Digits

PyInt(s) ==
    IF IntSigned(s) /\ Head(Strip(s)) = "-" THEN 0 - DecimalValue(IntBody(s))
    ELSE DecimalValue(IntBody(s))

\* s.split(sep)[1] of a string in which sep occurs: what lies between the
\* first sep and the next one (or the end of s)
SplitSecond(s, sep) ==
    SplitFirst(SubSeq(s, FindFirst(s, sep) + Len(sep), Len(s)), sep)

\* the characters of the model in the order of their code points, and the
\* comparison a < b of two strings
CodePoints ==
    <<" ", "+", "-", ".", "0", "1", "2", "3", "4", "5", "6", "7", "8", "9",
      "A", "B", "C", "D", "E", "F", "G", "H", "I", "J", "K", "L", "M", "N", "O",
      "P", "Q", "R", "S", "T", "U", "V", "W", "X", "Y", "Z", "_",
      "a", "b", "c", "d", "e", "f", "g", "h", "i", "j", "k", "l", "m", "n", "o",
      "p", "q", "r", "s", "t", "u", "v", "w", "x", "y", "z">>

Ord(c) == CHOOSE k \in 1..Len(CodePoints) : CodePoints[k] = c

RECURSIVE StrLess(_, _)
StrLess(a, b) ==
    IF b = <<>> THEN FALSE
    ELSE IF a = <<>> THEN TRUE
    ELSE IF Head(a) = Head(b) THEN StrLess(Tail(a), Tail(b))
    ELSE Ord(Head(a)) < Ord(Head(b))

\* sorted(names) of a set of distinct names
RECURSIVE sorted(_)
sorted(names) ==
    IF names = {} THEN <<>>
    ELSE LET first == CHOOSE x \in names : \A y \in names \ {x} : StrLess(x, y)
         IN  <<first>> \o sorted(names \ {first})

\* Path(filename).stem and Path(filename).suffix (pathlib: the last dot
\* splits the name unless it is the first or the last character)
Stem(filename) ==
    LET p == RFindChar(filename, ".")
    IN  IF 1 < p /\ p < Len(filename) THEN SubSeq(filename, 1, p - 1) ELSE filename

Suffix(filename) ==
    LET p == RFindChar(filename, ".")
    IN  IF 1 < p /\ p < Len(filename) THEN SubSeq(filename, p, Len(filename)) ELSE <<>>

(***************************************************************************)
(* core.py: constants and the filename codec.                              *)
(***************************************************************************)
MONTHS ==
    (<<"0","1">> :> <<"0","1","-","J","a","n","u","a","r","y">>) @@
    (<<"0","2">> :> <<"0","2","-","F","e","b","r","u","a","r","y">>) @@
    (<<"0","3">> :> <<"0","3","-","M","a","r","c","h">>) @@
    (<<"0","4">> :> <<"0","4","-","A","p","r","i","l">>) @@
    (<<"0","5">> :> <<"0","5","-","M","a","y">>) @@
    (<<"0","6">> :> <<"0","6","-","J","u","n","e">>) @@
    (<<"0","7">> :> <<"0","7","-","J","u","l","y">>) @@
    (<<"0","8">> :> <<"0","8","-","A","u","g","u","s","t">>) @@
    (<<"0","9">> :> <<"0","9","-","S","e","p","t","e","m","b","e","r">>) @@
    (<<"1","0">> :> <<"1","0","-","O","c","t","o","b","e","r">>) @@
    (<<"1","1">> :> <<"1","1","-","N","o","v","e","m","b","e","r">>) @@
    (<<"1","2">> :> <<"1","2","-","D","e","c","e","m","b","e","r">>)

\* parse_filename: <<month, day>> or None
parse_filename(filename) ==
    LET stem == Stem(filename)
    IN  IF Len(stem) < 6 \/ ~Contains(stem, <<"_">>) THEN NoneValue
        ELSE LET date_part == SplitFirst(stem, <<"_">>)
                 month == Slice(date_part, 2, 4)
                 day == Slice(date_part, 4, 6)
             IN  IF Len(date_part) # 6 THEN NoneValue
                 ELSE IF month \notin DOMAIN MONTHS THEN NoneValue
                 ELSE IF IntRaisesValueError(day) THEN NoneValue
                 ELSE IF ~(1 <= PyInt(day) /\ PyInt(day) <= 31) THEN NoneValue
                 ELSE <<month, day>>

\* the path of a destination file, relative to dest_base, as a string
JoinPath(month_folder, day, name) == month_folder \o <<"/">> \o day \o <<"/">> \o name

\* get_dest_path that writes the filename in lower case
get_dest_path_lower(filename) ==
    LET parsed == parse_filename(filename)
    IN  IF parsed = NoneValue THEN NoneValue
        ELSE JoinPath(MONTHS[parsed[1]], parsed[2], Lower(filename))

\* get_dest_path: the destination of a filename under dest_base, or None
get_dest_path(filename) ==
    LET parsed == parse_filename(filename)
    IN  IF parsed = NoneValue THEN NoneValue
        ELSE JoinPath(MONTHS[parsed[1]], parsed[2], filename)

\* get_full_date_from_filename that gives a date only for a filename that
\* parse_filename accepts
get_full_date_validated(name) ==
    LET stem == Stem(name)
        date_part == SplitFirst(stem, <<"_">>)
        time_part == Slice(SplitSecond(stem, <<"_">>), 0, 4)
    IN  IF Len(stem) < 11 \/ parse_filename(name) = NoneValue \/ Len(time_part) # 4
        THEN NoneValue
        ELSE <<"2","0">> \o Slice(date_part, 0, 2) \o <<"-">>
                \o Slice(date_part, 2, 4) \o <<"-">> \o Slice(date_part, 4, 6)
                \o <<" ">> \o Slice(time_part, 0, 2) \o <<":">> \o Slice(time_part, 2, 4)

\* get_full_date_from_filename: "20YY-MM-DD HH:MM" or None
get_full_date_from_filename(name) ==
    LET stem == Stem(name)
    IN  IF Len(stem) < 11 \/ ~Contains(stem, <<"_">>) THEN NoneValue
        ELSE LET date_part == SplitFirst(stem, <<"_">>)
                 time_part == Slice(SplitSecond(stem, <<"_">>), 0, 4)
             IN  IF Len(date_part) # 6 \/ Len(time_part) # 4 THEN NoneValue
                 ELSE <<"2","0">> \o Slice(date_part, 0, 2) \o <<"-">>
                        \o Slice(date_part, 2, 4) \o <<"-">> \o Slice(date_part, 4, 6)
                        \o <<" ">> \o Slice(time_part, 0, 2) \o <<":">> \o Slice(time_part, 2, 4)

(***************************************************************************)
(* core.py: discovery.  A source root either does not exist or is a        *)
(* directory; an entry of a directory is a directory with its own entries  *)
(* or a regular file.  Names are strings; a file found is <<folder, name>>. *)
(***************************************************************************)
EXCLUDED_FOLDERS == {<<"R","A","D","I","O","0","1">>}

AUDIO_EXTENSIONS ==
    {<<".","m","p","3">>, <<".","w","a","v">>, <<".","m","4","a">>, <<".","w","m","a">>}

\* item.is_dir() and item.is_file() for an entry of a directory
is_dir(entries, item) == entries[item].kind = "dir"

is_file(entries, item) == entries[item].kind = "file"

\* discover_folders that keeps the excluded folder
discover_folders_unfiltered(source_path) ==
    LET Keep(item) == is_dir(source_path.entries, item)
    IN  IF ~source_path.exists THEN <<>>
        ELSE SelectSeq(sorted(DOMAIN source_path.entries), Keep)

\* discover_folders(source_path): the names of the folders found
discover_folders(source_path) ==
    LET Keep(item) == is_dir(source_path.entries, item) /\ item \notin EXCLUDED_FOLDERS
    IN  IF ~source_path.exists THEN <<>>
        ELSE SelectSeq(sorted(DOMAIN source_path.entries), Keep)

\* discover_files that compares the extension as it is written
discover_files_case_sensitive(source_path, folder) ==
    LET entries == source_path.entries[folder].entries
        Keep(item) == is_file(entries, item) /\ Suffix(item) \in AUDIO_EXTENSIONS
        items == SelectSeq(sorted(DOMAIN entries), Keep)
    IN  [k \in 1..Len(items) |-> <<folder, items[k]>>]

\* discover_files(folder), for a folder of source_path
discover_files(source_path, folder) ==
    LET entries == source_path.entries[folder].entries
        Keep(item) == is_file(entries, item) /\ Lower(Suffix(item)) \in AUDIO_EXTENSIONS
        items == SelectSeq(sorted(DOMAIN entries), Keep)
    IN  [k \in 1..Len(items) |-> <<folder, items[k]>>]

\* all_files.extend(discover_files(folder)) for the folders of a list
RECURSIVE extend_all_files(_, _)
extend_all_files(source_path, folders) ==
    IF folders = <<>> THEN <<>>
    ELSE discover_files(source_path, Head(folders))
            \o extend_all_files(source_path, Tail(folders))

\* discover_all_files(source_path)
discover_all_files(source_path) ==
    extend_all_files(source_path, discover_folders(source_path))

(***************************************************************************)
(* checksum.py.  A file's content is a sequence of bytes.  SHA-256 is      *)
(* modelled by an 8-bit digest computed over the bytes in the order they   *)
(* are read, rendered as lowercase hexadecimal like hexdigest().           *)
(***************************************************************************)
HexChars == <<"0","1","2","3","4","5","6","7","8","9","a","b","c","d","e","f">>

RECURSIVE DigestState(_)
DigestState(content) ==
    IF content = <<>> THEN 5
    ELSE (DigestState(SubSeq(content, 1, Len(content) - 1)) * 31
            + content[Len(content)] + 1) % 256

\* calculate_sha256(filepath), on the content of the file
calculate_sha256(content) ==
    <<HexChars[(DigestState(content) \div 16) + 1], HexChars[(DigestState(content) % 16) + 1]>>

\* filepath.with_suffix(filepath.suffix + ".sha256")
sidecar_path(filepath) == filepath \o <<".","s","h","a","2","5","6">>

\* the text write_sidecar writes: "<hash> *<filename>\n"
sidecar_text(name, hash_value) == hash_value \o <<" ","*">> \o name \o <<"\n">>

\* a sidecar written as "<filename> *<hash>\n"
write_sidecar_swapped(sidecars, filepath, name, hash_value) ==
    (sidecar_path(filepath) :> (name \o <<" ","*">> \o hash_value \o <<"\n">>)) @@ sidecars

\* write_sidecar: sidecar_path.write_text(...), creating or replacing the sidecar
write_sidecar(sidecars, filepath, name, hash_value) ==
    (sidecar_path(filepath) :> sidecar_text(name, hash_value)) @@ sidecars

\* datetime.now().strftime(...): the clock of the model is the number of the call
Timestamp(now) == <<"T", HexChars[now + 1]>>

\* the line append_to_manifest writes; rel_path is filepath relative to dest_base
manifest_entry(rel_path, hash_value, now) ==
    hash_value \o <<" "," ">> \o rel_path
        \o <<" "," ","#"," ","i","m","p","o","r","t","e","d"," ">> \o Timestamp(now) \o <<"\n">>

\* a manifest opened with "w": the new line replaces what was there
append_to_manifest_truncating(manifest, rel_path, hash_value, now) ==
    <<manifest_entry(rel_path, hash_value, now)>>

\* append_to_manifest: the manifest is the sequence of its lines; open(.., "a")
append_to_manifest(manifest, rel_path, hash_value, now) ==
    Append(manifest, manifest_entry(rel_path, hash_value, now))

\* verify_checksum(filepath, expected_hash), on the content of the file
verify_checksum(content, expected_hash) ==
    Lower(calculate_sha256(content)) = Lower(expected_hash)

\* the hash verify_sidecar reads from the text of a sidecar
sidecar_expected_hash(text) ==
    IF Contains(Strip(text), <<" ","*">>)
    THEN SplitFirst(Strip(text), <<" ","*">>)
    ELSE FirstToken(Strip(text))

\* verify_sidecar(filepath): "True", "False", "None" when there is no sidecar;
\* an empty sidecar raises IndexError and a missing file FileNotFoundError
verify_sidecar(dest_files, sidecars, filepath) ==
    IF sidecar_path(filepath) \notin DOMAIN sidecars THEN "None"
    ELSE IF ~Contains(Strip(sidecars[sidecar_path(filepath)]), <<" ","*">>)
            /\ FirstToken(Strip(sidecars[sidecar_path(filepath)])) = <<>>
         THEN "IndexError"
    ELSE IF filepath \notin DOMAIN dest_files THEN "FileNotFoundError"
    ELSE IF verify_checksum(dest_files[filepath],
                            sidecar_expected_hash(sidecars[sidecar_path(filepath)]))
         THEN "True"
         ELSE "False"

(***************************************************************************)
(* The recorder of the model: two folders, a recording name present in     *)
(* both with different contents, a name that carries no date, and a        *)
(* recording whose title contains the words "already exists".              *)
(***************************************************************************)
Rec1430 == <<"2","4","0","3","1","5","_","1","4","3","0",".","m","p","3">>
RecNotes == <<"n","o","t","e","s",".","m","p","3">>
RecTitled == <<"2","4","1","2","0","1","_","a","l","r","e","a","d","y"," ",
               "e","x","i","s","t","s",".","w","a","v">>

SourceTree ==
    (<<"FOLDER01", Rec1430>> :> <<1, 2>>) @@
    (<<"FOLDER02", Rec1430>> :> <<3>>) @@
    (<<"FOLDER01", RecNotes>> :> <<4>>) @@
    (<<"FOLDER02", RecTitled>> :> <<5, 6>>)

SourcePaths == DOMAIN SourceTree

\* the names of the recordings, and parse_filename and get_dest_path over
\* them: each name is parsed once, when the tables are built
Names == {p[2] : p \in SourcePaths}

\* the filenames handed to the codec: a date part made of a year, a month
\* and a day, what follows the date part, and an extension
YearParts == {<<"2","4">>}

MonthParts == {<<"0","0">>, <<"0","3">>, <<"1","2">>, <<"1","3">>}

DayParts == {<<"0","0">>, <<"0","1">>, <<"1","5">>, <<"3","1">>, <<"3","2">>,
             <<" ","5">>, <<"+","1">>}

TailParts == {<<"_","1","4","3","0">>, <<"_","1","4","3","0","_","x">>,
              <<"_","1","4">>, <<"_","1","4","_","x","y">>, <<>>}

ExtParts == {<<".","m","p","3">>, <<".","M","P","3">>, <<>>}

OddNames ==
    { <<"a","b","0","3","1","5","_","1","4","3","0",".","m","p","3">>,
      <<"2","4","0","3","_",".","m","p","3">>,
      <<"2","4","0","3","1","_","1","4","3","0","0",".","m","p","3">>,
      <<"2","4","0","3","1","5","0","_","1","4","3","0",".","m","p","3">>,
      <<"_","2","4","0","3","1","5","_","1","4","3","0",".","m","p","3">>,
      <<"2","4","9","9","9","9","_","9","9","9","9",".","m","p","3">>,
      <<"2","4","0","3","1","x","_","1","4","3","0",".","m","p","3">>,
      <<"2","4","0","3","1","5","_","1","4","3","0","5","9",".","w","a","v">>,
      <<"2","4","0","3","1","5","-","1","4","3","0",".","m","p","3">> }

Filenames ==
    {yy \o mm \o dd \o tail \o ext :
        yy \in YearParts, mm \in MonthParts, dd \in DayParts,
        tail \in TailParts, ext \in ExtParts} \cup OddNames

ParsedNames == [name \in Names \cup Filenames |-> parse_filename(name)]

DestPathOf == [name \in Names \cup Filenames |-> get_dest_path(name)]

\* the source roots handed to discovery: a root that does not exist, or a
\* root in which each of three folders is absent or holds one of three
\* listings, with or without a regular file next to the folders
FOLDER01 == <<"F","O","L","D","E","R","0","1">>
FOLDER02 == <<"F","O","L","D","E","R","0","2">>
RADIO01 == <<"R","A","D","I","O","0","1">>
IndexFile == <<"I","N","D","E","X",".","m","p","3">>

NoEntries == [item \in {} |-> [kind |-> "file"]]

ListingA ==
    (<<"2","4","0","3","1","5","_","1","4","3","0",".","m","p","3">> :> [kind |-> "file"]) @@
    (<<"2","4","0","1","0","1","_","0","9","0","0",".","W","A","V">> :> [kind |-> "file"]) @@
    (<<"n","o","t","e","s",".","t","x","t">> :> [kind |-> "file"]) @@
    (<<".","m","p","3">> :> [kind |-> "file"])

ListingB ==
    (<<"9","9","1","2","3","1","_","0","0","0","0",".","w","a","v">> :> [kind |-> "file"]) @@
    (<<"s","u","b",".","m","4","a">> :> [kind |-> "dir"]) @@
    (<<"b",".","w","m","a">> :> [kind |-> "file"]) @@
    (<<"a",".","M","4","A">> :> [kind |-> "file"]) @@
    (<<"n","o","e","x","t">> :> [kind |-> "file"])

Listings == {NoEntries, ListingA, ListingB}

FolderChoices ==
    {[kind |-> "absent", entries |-> NoEntries]}
        \cup {[kind |-> "dir", entries |-> listing] : listing \in Listings}

RootEntries(choice, with_file) ==
    [item \in {f \in DOMAIN choice : choice[f].kind # "absent"}
                \cup (IF with_file THEN {IndexFile} ELSE {})
        |-> IF item = IndexFile THEN [kind |-> "file", entries |-> NoEntries]
            ELSE choice[item]]

NoCard == [exists |-> FALSE, entries |-> NoEntries]

Cards ==
    {NoCard} \cup
    {[exists |-> TRUE, entries |-> RootEntries(choice, with_file)] :
        choice \in [{FOLDER01, FOLDER02, RADIO01} -> FolderChoices], with_file \in BOOLEAN}

(***************************************************************************)
(* The file trees.  A source file is <<parent folder, name>>; a            *)
(* destination file, sidecar or folder is its path relative to dest_base.  *)
(* A tree maps the paths that exist to the content of the file.  fs is the *)
(* record of the trees an operation reads and writes:                      *)
(*   source     the files on the recorder                                  *)
(*   dirs       the folders under dest_base                                *)
(*   dest_files the audio files under dest_base                            *)
(*   sidecars   the .sha256 files under dest_base                          *)
(*   manifest   the lines of dest_base/checksums.txt                       *)
(***************************************************************************)
Remove(tree, path) == [q \in (DOMAIN tree) \ {path} |-> tree[q]]

\* the I/O errors the environment can raise inside one import_file call:
\*   mkdir     dest_dir.mkdir raises (the folder is not created)
\*   transfer  the copy raises before the destination file is created
\*   partial   the copy raises after part of the destination file is written
\*   unlink    the move has copied the file and cannot remove the source
\*   hash      calculate_sha256 cannot read the destination file
\*   sidecar   write_sidecar cannot create the sidecar
\*   manifest  append_to_manifest cannot open or write the manifest
Faults == {"none", "mkdir", "transfer", "partial", "unlink", "hash", "sidecar", "manifest"}

\* str(e) of the OSError
OSErrorText == <<"[","E","r","r","n","o"," ","5","]">>

\* dest_dir.mkdir(parents=True, exist_ok=True)
mkdir(dirs, month_folder, day) == dirs \cup {<<month_folder>>, <<month_folder, day>>}

\* dest_file.exists() that never finds the file
dest_exists_never(dest_files, dest_file) == FALSE

\* dest_file.exists()
dest_exists(dest_files, dest_file) == dest_file \in DOMAIN dest_files

\* a copy into a file named after the folder of the source
shutil_copy2_by_folder(fs, src, dest_file, fault, written) ==
    [raised |-> src \notin DOMAIN fs.source, fired |-> FALSE,
     fs |-> IF src \notin DOMAIN fs.source THEN fs
            ELSE [fs EXCEPT !.dest_files = ((<<src[1]>> \o dest_file) :> fs.source[src]) @@ @]]

\* shutil.copy2(src, dest_file): a missing source raises FileNotFoundError
\* before the destination is opened; written is the number of bytes that
\* reached the destination when the copy breaks
shutil_copy2(fs, src, dest_file, fault, written) ==
    IF src \notin DOMAIN fs.source THEN [raised |-> TRUE, fired |-> FALSE, fs |-> fs]
    ELSE IF fault = "transfer" THEN [raised |-> TRUE, fired |-> TRUE, fs |-> fs]
    ELSE IF fault = "partial" /\ written < Len(fs.source[src])
         THEN [raised |-> TRUE, fired |-> TRUE,
               fs |-> [fs EXCEPT !.dest_files =
                          (dest_file :> SubSeq(fs.source[src], 1, written)) @@ @]]
    ELSE [raised |-> FALSE, fired |-> FALSE,
          fs |-> [fs EXCEPT !.dest_files = (dest_file :> fs.source[src]) @@ @]]

\* a move that copies and leaves the source file behind
shutil_move_keeps_source(fs, src, dest_file, fault, written) ==
    shutil_copy2(fs, src, dest_file, fault, written)

\* shutil.move(src, dest_file): os.rename, or across devices copy2 followed
\* by os.unlink(src)
shutil_move(fs, src, dest_file, fault, written) ==
    LET copied == shutil_copy2(fs, src, dest_file, fault, written)
    IN  IF copied.raised THEN copied
        ELSE IF fault = "unlink" THEN [raised |-> TRUE, fired |-> TRUE, fs |-> copied.fs]
        ELSE [raised |-> FALSE, fired |-> FALSE,
              fs |-> [copied.fs EXCEPT !.source = Remove(@, src)]]

\* a checksum step that appends to the manifest before it writes the sidecar
checksum_step_manifest_first(fs, dest_file, name, fault, now) ==
    LET hash_value == calculate_sha256(fs.dest_files[dest_file])
        fs1 == [fs EXCEPT !.manifest = append_to_manifest(@, dest_file, hash_value, now)]
        fs2 == [fs1 EXCEPT !.sidecars = write_sidecar(@, dest_file, name, hash_value)]
    IN  IF fault = "hash" THEN [raised |-> TRUE, fired |-> TRUE, fs |-> fs]
        ELSE IF fault = "manifest" THEN [raised |-> TRUE, fired |-> TRUE, fs |-> fs]
        ELSE IF fault = "sidecar" THEN [raised |-> TRUE, fired |-> TRUE, fs |-> fs1]
        ELSE [raised |-> FALSE, fired |-> FALSE, fs |-> fs2]

\* the three calls of the checksum step of import_file
checksum_step(fs, dest_file, name, fault, now) ==
    LET hash_value == calculate_sha256(fs.dest_files[dest_file])
        fs1 == [fs EXCEPT !.sidecars = write_sidecar(@, dest_file, name, hash_value)]
        fs2 == [fs1 EXCEPT !.manifest = append_to_manifest(@, dest_file, hash_value, now)]
    IN  IF fault = "hash" THEN [raised |-> TRUE, fired |-> TRUE, fs |-> fs]
        ELSE IF fault = "sidecar" THEN [raised |-> TRUE, fired |-> TRUE, fs |-> fs]
        ELSE IF fault = "manifest" THEN [raised |-> TRUE, fired |-> TRUE, fs |-> fs1]
        ELSE [raised |-> FALSE, fired |-> FALSE, fs |-> fs2]

\* the messages of import_file
MsgUnparseable(name) ==
    <<"C","o","u","l","d"," ","n","o","t"," ","p","a","r","s","e"," ",
      "d","a","t","e"," ","f","r","o","m"," ">> \o name

MsgExists(name) ==
    <<"F","i","l","e"," ","a","l","r","e","a","d","y"," ","e","x","i","s","t","s",":"," ">> \o name

MsgError(name) ==
    <<"E","r","r","o","r"," ","i","m","p","o","r","t","i","n","g"," ">> \o name
        \o <<":"," ">> \o OSErrorText

MsgDone(mode, name, month_folder, day) ==
    (IF mode = "move" THEN <<"M","o","v","e","d">> ELSE <<"C","o","p","i","e","d">>)
        \o <<":"," ">> \o name \o <<" ","-",">"," ">> \o month_folder \o <<"/">> \o day \o <<"/">>

ChecksumGenerated ==
    <<" ","[","c","h","e","c","k","s","u","m"," ","g","e","n","e","r","a","t","e","d","]">>

\* what one call of import_file does: raised = an exception leaves the call;
\* otherwise (success, message) is the value returned.  outcome names the
\* branch taken and fired tells whether the I/O error was raised.
Returned(success, message, outcome, fired, fs) ==
    [raised |-> FALSE, success |-> success, message |-> message,
     outcome |-> outcome, fired |-> fired, fs |-> fs]

\* a try block whose checksum step also runs on what a broken transfer left
try_block_checksum_always(fs, src, dest_file, month_folder, day, mode, checksum_enabled, fault, written, now) ==
    LET name == src[2]
        moved == IF mode = "move"
                 THEN shutil_move(fs, src, dest_file, fault, written)
                 ELSE shutil_copy2(fs, src, dest_file, fault, written)
        message == MsgDone(mode, name, month_folder, day)
        summed == checksum_step(moved.fs, dest_file, name, "none", now)
    IN  IF moved.raised
        THEN Returned(FALSE, MsgError(name), "Failed", moved.fired,
                      IF checksum_enabled /\ dest_file \in DOMAIN moved.fs.dest_files
                      THEN summed.fs ELSE moved.fs)
        ELSE IF ~checksum_enabled
        THEN Returned(TRUE, message, "Imported", FALSE, moved.fs)
        ELSE Returned(TRUE, message \o ChecksumGenerated, "Imported", FALSE, summed.fs)

\* the try block of import_file
try_block(fs, src, dest_file, month_folder, day, mode, checksum_enabled, fault, written, now) ==
    LET name == src[2]
        moved == IF mode = "move"
                 THEN shutil_move(fs, src, dest_file, fault, written)
                 ELSE shutil_copy2(fs, src, dest_file, fault, written)
        message == MsgDone(mode, name, month_folder, day)
        summed == checksum_step(moved.fs, dest_file, name, fault, now)
    IN  IF moved.raised
        THEN Returned(FALSE, MsgError(name), "Failed", moved.fired, moved.fs)
        ELSE IF ~checksum_enabled
        THEN Returned(TRUE, message, "Imported", FALSE, moved.fs)
        ELSE IF summed.raised
        THEN Returned(FALSE, MsgError(name), "Failed", TRUE, summed.fs)
        ELSE Returned(TRUE, message \o ChecksumGenerated, "Imported", FALSE, summed.fs)

\* an import_file that, in move mode, removes a file it cannot classify
import_file_drops_unparseable(fs, src, mode, checksum_enabled, fault, written, now) ==
    LET name == src[2]
        parsed == ParsedNames[name]
    IN  IF parsed = NoneValue
        THEN Returned(FALSE, MsgUnparseable(name), "SkippedUnparseable", FALSE,
                      IF mode = "move" THEN [fs EXCEPT !.source = Remove(@, src)] ELSE fs)
        ELSE LET month_folder == MONTHS[parsed[1]]
                 day == parsed[2]
                 dest_file == JoinPath(month_folder, day, name)
                 staged == [fs EXCEPT !.dirs = mkdir(@, month_folder, day)]
             IN  IF dest_exists(staged.dest_files, dest_file)
                 THEN Returned(FALSE, MsgExists(name), "SkippedAlreadyExists", FALSE, staged)
                 ELSE try_block(staged, src, dest_file, month_folder, day,
                                mode, checksum_enabled, fault, written, now)

\* import_file(src, dest_base, mode, checksum_enabled)
import_file(fs, src, mode, checksum_enabled, fault, written, now) ==
    LET name == src[2]
        parsed == ParsedNames[name]
    IN  IF parsed = NoneValue
        THEN Returned(FALSE, MsgUnparseable(name), "SkippedUnparseable", FALSE, fs)
        ELSE LET month_folder == MONTHS[parsed[1]]
                 day == parsed[2]
                 dest_file == JoinPath(month_folder, day, name)
                 staged == [fs EXCEPT !.dirs = mkdir(@, month_folder, day)]
             IN  IF fault = "mkdir" /\ <<month_folder, day>> \notin fs.dirs
                 THEN [raised |-> TRUE, success |-> FALSE, message |-> <<>>,
                       outcome |-> "Raised", fired |-> TRUE, fs |-> fs]
                 ELSE IF dest_exists(staged.dest_files, dest_file)
                 THEN Returned(FALSE, MsgExists(name), "SkippedAlreadyExists", FALSE, staged)
                 ELSE try_block(staged, src, dest_file, month_folder, day,
                                mode, checksum_enabled, fault, written, now)

\* import_files, lines 220-225: the counters and the error list after one file
counts_as_error(message) == ~Contains(message, <<"a","l","r","e","a","d","y"," ","e","x","i","s","t","s">>)

\* the lists of distinct source files of length 1..MaxFiles
FileLists ==
    {l \in UNION {[1..n -> SourcePaths] : n \in 1..MaxFiles} :
        \A a, b \in DOMAIN l : a # b => l[a] # l[b]}

Modes == {"copy", "move"}

EmptyTree == [q \in {} |-> <<>>]

VARIABLES
    source, dirs, dest_files, sidecars, manifest,   \* the file trees
    files, mode, checksum_enabled,                   \* arguments of import_files
    pc,                                              \* "idle", "loop", "returned", "raised"
    i, success_count, skip_count, errors,            \* locals of import_files
    progress,                                        \* the calls of progress_callback
    results,                                         \* what import_file gave per file of the run
    last,                                            \* the latest import_file call
    imported,                                        \* destinations import_file reported as imported
    calls, faults,                                   \* calls started, I/O errors raised
    prev,                                            \* the import_files run before this one
    cancelled, finished,                             \* ImportWorker: _cancelled, finished.emit calls
    window,                                          \* MainWindow: the button, the dialogs, the table
    input_name, codec,                               \* a filename and what the codec gave for it
    card, found                                      \* a source root and what discovery gave for it

vars == <<source, dirs, dest_files, sidecars, manifest, files, mode, checksum_enabled,
          pc, i, success_count, skip_count, errors, progress, results, last,
          imported, calls, faults, prev, cancelled, finished, window, input_name, codec,
          card, found>>

\* the variables of the worker thread, of the codec and of discovery
worker_vars == <<cancelled, finished, window>>

codec_vars == <<input_name, codec>>

discovery_vars == <<card, found>>

FS == [source |-> source, dirs |-> dirs, dest_files |-> dest_files,
       sidecars |-> sidecars, manifest |-> manifest]

SetFS(fs) ==
    /\ source' = fs.source
    /\ dirs' = fs.dirs
    /\ dest_files' = fs.dest_files
    /\ sidecars' = fs.sidecars
    /\ manifest' = fs.manifest

NoCall == [n |-> 0, src |-> <<>>, mode |-> "copy", checksum_enabled |-> FALSE,
           fault |-> "none", existed |-> FALSE, raised |-> FALSE, success |-> FALSE,
           message |-> <<>>, outcome |-> "None"]

NoPrev == [valid |-> FALSE, mode |-> "copy", results |-> <<>>,
           dest_files |-> EmptyTree, sidecars |-> EmptyTree, manifest |-> <<>>]

NoCodec == [step |-> 0, parsed |-> NoneValue, dest_path |-> NoneValue,
            full_date |-> NoneValue]

\* what a discovery function gave: raised = the call ended by an exception
\* (no function of core.py raises for the roots of the model)
NoFound == [op |-> "none", folder |-> <<>>, raised |-> FALSE, folders |-> <<>>, files |-> <<>>]

\* no import is waiting for the answer to "Confirm Move"
NoRequest == <<>>

\* MainWindow.__init__: the Import button is enabled, no dialog is open, the
\* table lists the files discovered on the card with every row checked, and
\* no finished notification has been handled.  dialogs is the stack of open
\* modal dialogs, the last one on top; phase is "open", "waiting" (closeEvent
\* is in import_worker.wait()) or "closed"
WindowAtStart ==
    [import_btn |-> TRUE, dialogs |-> <<>>, table |-> "listed", handled |-> 0,
     request |-> NoRequest, phase |-> "open"]

\* the record of one import_file call: its arguments, the I/O error raised
\* in it, whether the destination file existed when it was called, and
\* what the call gave
CallRecord(src, m, cs, fault, r) ==
    [n |-> last.n + 1, src |-> src, mode |-> m, checksum_enabled |-> cs,
     fault |-> fault,
     existed |-> DestPathOf[src[2]] \in DOMAIN dest_files,
     raised |-> r.raised, success |-> r.success, message |-> r.message,
     outcome |-> r.outcome]

\* the lengths a broken copy can leave at the destination (every strict
\* prefix of the longest file of the recorder)
WrittenChoices(fault) == IF fault = "partial" THEN 0..1 ELSE {0}

\* the environment raises the chosen I/O error in this call, within its budget
FaultAllowed(fault, r) ==
    \/ fault = "none"
    \/ fault # "none" /\ faults < MaxFaults /\ r.fired

Init ==
    /\ source = SourceTree
    /\ dirs = {}
    /\ dest_files = EmptyTree
    /\ sidecars = EmptyTree
    /\ manifest = <<>>
    /\ files \in FileLists
    /\ mode = "copy"
    /\ checksum_enabled = FALSE
    /\ pc = "idle"
    /\ i = 0
    /\ success_count = 0
    /\ skip_count = 0
    /\ errors = <<>>
    /\ progress = <<>>
    /\ results = <<>>
    /\ last = NoCall
    /\ imported = {}
    /\ calls = 0
    /\ faults = 0
    /\ prev = NoPrev
    /\ cancelled = FALSE
    /\ window = WindowAtStart
    /\ finished = <<>>
    /\ input_name = <<>>
    /\ codec = NoCodec
    /\ card = NoCard
    /\ found = NoFound

\* import_files(files, dest_base, m, cs, progress_callback) is called: lines 213-215
CallImportFiles(m, cs) ==
    /\ pc \in {"idle", "returned", "raised"}
    /\ calls < MaxCalls
    /\ calls' = calls + 1
    /\ pc' = "loop"
    /\ mode' = m
    /\ checksum_enabled' = cs
    /\ i' = 0
    /\ success_count' = 0
    /\ skip_count' = 0
    /\ errors' = <<>>
    /\ progress' = <<>>
    /\ results' = <<>>
    /\ prev' = IF pc = "returned"
               THEN [valid |-> TRUE, mode |-> mode, results |-> results,
                     dest_files |-> dest_files, sidecars |-> sidecars, manifest |-> manifest]
               ELSE NoPrev
    /\ UNCHANGED <<source, dirs, dest_files, sidecars, manifest, files, last, imported, faults>>
    /\ UNCHANGED <<worker_vars, codec_vars, discovery_vars>>

\* one iteration of the loop of import_files: lines 217-228
ImportNext(fault, written) ==
    /\ pc = "loop"
    /\ i < Len(files)
    /\ LET r == import_file(FS, files[i + 1], mode, checksum_enabled, fault, written, calls)
       IN  /\ FaultAllowed(fault, r)
           /\ faults' = IF fault = "none" THEN faults ELSE faults + 1
           /\ SetFS(r.fs)
           /\ last' = CallRecord(files[i + 1], mode, checksum_enabled, fault, r)
           /\ imported' = IF r.success
                          THEN imported \cup {DestPathOf[files[i + 1][2]]} ELSE imported
           /\ IF r.raised
              THEN /\ pc' = "raised"
                   /\ UNCHANGED <<i, success_count, skip_count, errors, progress, results>>
              ELSE /\ pc' = pc
                   /\ i' = i + 1
                   /\ success_count' = IF r.success THEN success_count + 1 ELSE success_count
                   /\ skip_count' = IF r.success THEN skip_count ELSE skip_count + 1
                   /\ errors' = IF ~r.success /\ counts_as_error(r.message)
                                THEN Append(errors, r.message) ELSE errors
                   /\ progress' = Append(progress, <<i + 1, Len(files), r.message>>)
                   /\ results' = Append(results, [src |-> files[i + 1], success |-> r.success,
                                                  message |-> r.message, outcome |-> r.outcome])
    /\ UNCHANGED <<files, mode, checksum_enabled, calls, prev>>
    /\ UNCHANGED <<worker_vars, codec_vars, discovery_vars>>

\* an import_files that returns after its first file
ReturnImportFiles_after_first ==
    /\ pc = "loop"
    /\ i >= 1
    /\ pc' = "returned"
    /\ UNCHANGED <<source, dirs, dest_files, sidecars, manifest, files, mode, checksum_enabled,
                   i, success_count, skip_count, errors, progress, results, last,
                   imported, calls, faults, prev>>
    /\ UNCHANGED <<worker_vars, codec_vars, discovery_vars>>

\* import_files returns (success_count, skip_count, errors): line 230
ReturnImportFiles ==
    /\ pc = "loop"
    /\ i = Len(files)
    /\ pc' = "returned"
    /\ UNCHANGED <<source, dirs, dest_files, sidecars, manifest, files, mode, checksum_enabled,
                   i, success_count, skip_count, errors, progress, results, last,
                   imported, calls, faults, prev>>
    /\ UNCHANGED <<worker_vars, codec_vars, discovery_vars>>

Next ==
    \/ \E m \in Modes, cs \in BOOLEAN : CallImportFiles(m, cs)
    \/ \E fault \in Faults : \E written \in WrittenChoices(fault) : ImportNext(fault, written)
    \/ ReturnImportFiles

Spec == Init /\ [][Next]_vars

(***************************************************************************)
(* gui/main_window.py: the ImportWorker thread and the thread of the       *)
(* window.  The worker is at one of these places (pc):                     *)
(*   "top"     at the top of an iteration, before it reads _cancelled      *)
(*   "call"    it has read _cancelled = False and is in import_file        *)
(*   "emit"    it has left the loop and is about to emit finished          *)
(*   "done"    run() has returned                                          *)
(*   "raised"  an exception has left run()                                 *)
(***************************************************************************)
engine_vars == <<source, dirs, dest_files, sidecars, manifest, last, imported, faults>>

\* _start_import: the worker is constructed with the selected files and started
StartWorker(m, cs) ==
    /\ pc = "idle"
    /\ pc' = "top"
    /\ mode' = m
    /\ checksum_enabled' = cs
    /\ cancelled' = FALSE
    /\ UNCHANGED <<engine_vars, files, i, success_count, skip_count, errors, progress,
                   results, calls, prev, finished, window, codec_vars, discovery_vars>>

\* ImportWorker.run, lines 58-60: the next file of the list, and the test of
\* the cancel flag
WorkerTop ==
    /\ pc = "top"
    /\ pc' = IF i < Len(files) /\ ~cancelled THEN "call" ELSE "emit"
    /\ UNCHANGED <<engine_vars, files, mode, checksum_enabled, i, success_count,
                   skip_count, errors, progress, results, calls, prev,
                   worker_vars, codec_vars, discovery_vars>>

\* ImportWorker.run, lines 62-73: import_file, the counters, progress.emit
WorkerImport(fault, written) ==
    /\ pc = "call"
    /\ LET r == import_file(FS, files[i + 1], mode, checksum_enabled, fault, written, 1)
       IN  /\ FaultAllowed(fault, r)
           /\ faults' = IF fault = "none" THEN faults ELSE faults + 1
           /\ SetFS(r.fs)
           /\ last' = CallRecord(files[i + 1], mode, checksum_enabled, fault, r)
           /\ imported' = IF r.success
                          THEN imported \cup {DestPathOf[files[i + 1][2]]} ELSE imported
           /\ IF r.raised
              THEN /\ pc' = "raised"
                   /\ UNCHANGED <<i, success_count, skip_count, errors, progress, results>>
              ELSE /\ pc' = "top"
                   /\ i' = i + 1
                   /\ success_count' = IF r.success THEN success_count + 1 ELSE success_count
                   /\ skip_count' = IF r.success THEN skip_count ELSE skip_count + 1
                   /\ errors' = IF ~r.success /\ counts_as_error(r.message)
                                THEN Append(errors, r.message) ELSE errors
                   /\ progress' = Append(progress, <<i + 1, Len(files), r.message>>)
                   /\ results' = Append(results, [src |-> files[i + 1], success |-> r.success,
                                                  message |-> r.message, outcome |-> r.outcome])
    /\ UNCHANGED <<files, mode, checksum_enabled, calls, prev,
                   worker_vars, codec_vars, discovery_vars>>

\* ImportWorker.run, line 75: finished.emit(success_count, skip_count, errors)
WorkerFinished ==
    /\ pc = "emit"
    /\ pc' = "done"
    /\ finished' = Append(finished, <<success_count, skip_count, errors>>)
    /\ UNCHANGED <<engine_vars, files, mode, checksum_enabled, i, success_count,
                   skip_count, errors, progress, results, calls, prev,
                   cancelled, window, codec_vars, discovery_vars>>

\* closeEvent of the window while the worker is running: cancel(), then wait()
Cancel ==
    /\ pc \in {"top", "call", "emit"}
    /\ ~cancelled
    /\ cancelled' = TRUE
    /\ UNCHANGED <<engine_vars, files, mode, checksum_enabled, pc, i, success_count,
                   skip_count, errors, progress, results, calls, prev,
                   finished, window, codec_vars, discovery_vars>>

WorkerNext ==
    \/ \E m \in Modes, cs \in BOOLEAN : StartWorker(m, cs)
    \/ WorkerTop
    \/ \E fault \in Faults : \E written \in WrittenChoices(fault) : WorkerImport(fault, written)
    \/ WorkerFinished
    \/ Cancel

WorkerSpec == Init /\ [][WorkerNext]_vars

\* the two batch loops over one file system: import_files of core.py and
\* ImportWorker.run of the window
BatchNext ==
    \/ Next
    \/ WorkerNext

BatchSpec == Init /\ [][BatchNext]_vars

(***************************************************************************)
(* gui/main_window.py: the window thread.  Its handlers run one at a time; *)
(* a modal dialog (QMessageBox, SettingsDialog.exec) runs a nested event   *)
(* loop in which the widgets of the window take no input, while queued     *)
(* signals of the worker are still delivered.                              *)
(***************************************************************************)
WorkerRunning == pc \in {"top", "call", "emit"}

Top(dialogs) == IF dialogs = <<>> THEN "none" ELSE dialogs[Len(dialogs)]

Pop(dialogs) == SubSeq(dialogs, 1, Len(dialogs) - 1)

\* the window takes a click on one of its widgets
WindowActive == window.phase = "open" /\ window.dialogs = <<>>

\* _refresh_source: the table after a look at the card
refreshed_table(present) == IF present THEN "listed" ELSE "empty"

\* a _start_import that leaves the Import button as it is
setEnabled_on_start_skipped(enabled) == enabled

\* _start_import, line 403: self.import_btn.setEnabled(False)
setEnabled_on_start(enabled) == FALSE

\* _start_import, lines 403-415, and ImportWorker.run, lines 54-56: the
\* button is disabled, a worker is constructed for the selected files and
\* started, and its run() begins with empty counters
StartImportWorker(m, cs, dialogs) ==
    /\ window' = [window EXCEPT !.import_btn = setEnabled_on_start(@),
                                !.dialogs = dialogs, !.request = NoRequest]
    /\ calls' = calls + 1
    /\ pc' = "top"
    /\ mode' = m
    /\ checksum_enabled' = cs
    /\ cancelled' = FALSE
    /\ i' = 0
    /\ success_count' = 0
    /\ skip_count' = 0
    /\ errors' = <<>>
    /\ progress' = <<>>
    /\ results' = <<>>
    /\ UNCHANGED <<engine_vars, files, prev, finished, codec_vars, discovery_vars>>

\* the frame of a handler that touches the window only
window_frame == <<engine_vars, files, mode, checksum_enabled, pc, i, success_count,
                  skip_count, errors, progress, results, calls, prev, cancelled, finished,
                  codec_vars, discovery_vars>>

\* a click on Import Selected, _start_import lines 369-401: nothing selected
\* or a destination whose parent is missing ends in a warning, move mode
\* asks for confirmation, copy mode starts the worker
ClickImport(m, cs, path_ok) ==
    /\ WindowActive
    /\ window.import_btn
    /\ calls < MaxCalls
    /\ IF window.table = "empty" \/ ~path_ok
       THEN /\ window' = [window EXCEPT !.dialogs = Append(@, "warning")]
            /\ UNCHANGED window_frame
       ELSE IF m = "move"
       THEN /\ window' = [window EXCEPT !.dialogs = Append(@, "confirm"), !.request = <<m, cs>>]
            /\ UNCHANGED window_frame
       ELSE StartImportWorker(m, cs, window.dialogs)

\* the warning of _start_import is dismissed and _start_import returns
DismissWarning ==
    /\ window.phase = "open"
    /\ Top(window.dialogs) = "warning"
    /\ window' = [window EXCEPT !.dialogs = Pop(@)]
    /\ UNCHANGED window_frame

\* the answer to "Confirm Move", _start_import lines 394-415
AnswerConfirm(yes) ==
    /\ window.phase = "open"
    /\ Top(window.dialogs) = "confirm"
    /\ IF yes
       THEN StartImportWorker(window.request[1], window.request[2], Pop(window.dialogs))
       ELSE /\ window' = [window EXCEPT !.dialogs = Pop(@), !.request = NoRequest]
            /\ UNCHANGED window_frame

\* a click on Refresh: _refresh_source
Refresh(present) ==
    /\ WindowActive
    /\ window' = [window EXCEPT !.table = refreshed_table(present)]
    /\ UNCHANGED window_frame

\* a click on Settings...: _open_settings runs the dialog
OpenSettings ==
    /\ WindowActive
    /\ window' = [window EXCEPT !.dialogs = Append(@, "settings")]
    /\ UNCHANGED window_frame

\* the settings dialog is closed; when accepted, _open_settings saves and
\* loads the settings and refreshes the source
CloseSettings(accepted, present) ==
    /\ window.phase = "open"
    /\ Top(window.dialogs) = "settings"
    /\ window' = [window EXCEPT !.dialogs = Pop(@),
                                !.table = IF accepted THEN refreshed_table(present) ELSE @]
    /\ UNCHANGED window_frame

\* the queued finished signal is delivered, _on_import_finished lines
\* 423-438: the button is enabled and "Import Complete" is shown
OnImportFinished ==
    /\ window.phase = "open"
    /\ window.handled < Len(finished)
    /\ window' = [window EXCEPT !.import_btn = TRUE, !.handled = @ + 1,
                                !.dialogs = Append(@, "info")]
    /\ UNCHANGED window_frame

\* "Import Complete" is dismissed, _on_import_finished lines 439-445: the
\* source is refreshed after a move
DismissInfo(present) ==
    /\ window.phase = "open"
    /\ Top(window.dialogs) = "info"
    /\ window' = [window EXCEPT !.dialogs = Pop(@),
                                !.table = IF mode = "move" THEN refreshed_table(present) ELSE @]
    /\ UNCHANGED window_frame

\* the window is asked to close, closeEvent lines 447-464
CloseEvent ==
    /\ WindowActive
    /\ window' = IF WorkerRunning
                 THEN [window EXCEPT !.dialogs = Append(@, "closing")]
                 ELSE [window EXCEPT !.phase = "closed"]
    /\ UNCHANGED window_frame

\* the answer to "Import in Progress": Yes calls cancel() and then wait()
AnswerClosing(yes) ==
    /\ window.phase = "open"
    /\ Top(window.dialogs) = "closing"
    /\ window' = [window EXCEPT !.dialogs = Pop(@),
                                !.phase = IF yes THEN "waiting" ELSE @]
    /\ cancelled' = IF yes THEN TRUE ELSE cancelled
    /\ UNCHANGED <<engine_vars, files, mode, checksum_enabled, pc, i, success_count,
                   skip_count, errors, progress, results, calls, prev, finished,
                   codec_vars, discovery_vars>>

\* import_worker.wait() returns when run() has ended, and the window closes
WaitReturns ==
    /\ window.phase = "waiting"
    /\ ~WorkerRunning
    /\ window' = [window EXCEPT !.phase = "closed"]
    /\ UNCHANGED window_frame

GuiNext ==
    \/ \E m \in Modes, cs \in BOOLEAN, path_ok \in BOOLEAN : ClickImport(m, cs, path_ok)
    \/ DismissWarning
    \/ \E yes \in BOOLEAN : AnswerConfirm(yes)
    \/ \E present \in BOOLEAN : Refresh(present)
    \/ OpenSettings
    \/ \E accepted \in BOOLEAN, present \in BOOLEAN : CloseSettings(accepted, present)
    \/ OnImportFinished
    \/ \E present \in BOOLEAN : DismissInfo(present)
    \/ CloseEvent
    \/ \E yes \in BOOLEAN : AnswerClosing(yes)
    \/ WaitReturns
    \/ WorkerTop
    \/ \E fault \in Faults : \E written \in WrittenChoices(fault) : WorkerImport(fault, written)
    \/ WorkerFinished

\* the rows of the table, all checked (lines 278-279): the files of the card
\* in the order of discover_all_files, as far as the bound on a batch allows
SelectedFiles ==
    SubSeq(<< <<"FOLDER01", Rec1430>>, <<"FOLDER01", RecNotes>>,
              <<"FOLDER02", Rec1430>>, <<"FOLDER02", RecTitled>> >>, 1, MaxFiles)

GuiInit ==
    /\ Init
    /\ files = SelectedFiles

GuiSpec == GuiInit /\ [][GuiNext]_vars

(***************************************************************************)
(* The codec applied to a filename.  The three functions are pure and are  *)
(* applied in the order of core.py; import_file is then called for the     *)
(* file of that name in each of two folders, at most once per file.        *)
(***************************************************************************)
CodecSource(name) ==
    (<<"FOLDER01", name>> :> <<1, 2>>) @@ (<<"FOLDER02", name>> :> <<3>>)

CodecInit ==
    /\ input_name \in Filenames
    /\ codec = NoCodec
    /\ source = CodecSource(input_name)
    /\ dirs = {}
    /\ dest_files = EmptyTree
    /\ sidecars = EmptyTree
    /\ manifest = <<>>
    /\ files = <<>>
    /\ mode = "copy"
    /\ checksum_enabled = FALSE
    /\ pc = "idle"
    /\ i = 0
    /\ success_count = 0
    /\ skip_count = 0
    /\ errors = <<>>
    /\ progress = <<>>
    /\ results = <<>>
    /\ last = NoCall
    /\ imported = {}
    /\ calls = 0
    /\ faults = 0
    /\ prev = NoPrev
    /\ cancelled = FALSE
    /\ window = WindowAtStart
    /\ finished = <<>>
    /\ card = NoCard
    /\ found = NoFound

codec_frame == <<files, mode, checksum_enabled, pc, i, success_count, skip_count, errors,
                 progress, calls, prev, worker_vars, discovery_vars, input_name>>

ApplyParseFilename ==
    /\ codec.step = 0
    /\ codec' = [codec EXCEPT !.step = 1, !.parsed = parse_filename(input_name)]
    /\ UNCHANGED <<engine_vars, results, codec_frame>>

ApplyGetFullDate ==
    /\ codec.step = 1
    /\ codec' = [codec EXCEPT !.step = 2,
                               !.full_date = get_full_date_from_filename(input_name)]
    /\ UNCHANGED <<engine_vars, results, codec_frame>>

ApplyGetDestPath ==
    /\ codec.step = 2
    /\ codec' = [codec EXCEPT !.step = 3, !.dest_path = get_dest_path(input_name)]
    /\ UNCHANGED <<engine_vars, results, codec_frame>>

\* import_file(folder / input_name, dest_base, m, cs)
ApplyImportFile(folder, m, cs, fault, written) ==
    /\ codec.step = 3
    /\ \A k \in DOMAIN results : results[k].src # <<folder, input_name>>
    /\ LET src == <<folder, input_name>>
           r == import_file(FS, src, m, cs, fault, written, Len(results) + 1)
       IN  /\ FaultAllowed(fault, r)
           /\ faults' = IF fault = "none" THEN faults ELSE faults + 1
           /\ SetFS(r.fs)
           /\ last' = CallRecord(src, m, cs, fault, r)
           /\ imported' = IF r.success THEN imported \cup {DestPathOf[input_name]}
                          ELSE imported
           /\ results' = Append(results, [src |-> src, success |-> r.success,
                                          message |-> r.message, outcome |-> r.outcome])
    /\ UNCHANGED <<codec, codec_frame>>

CodecNext ==
    \/ ApplyParseFilename
    \/ ApplyGetFullDate
    \/ ApplyGetDestPath
    \/ \E folder \in {"FOLDER01", "FOLDER02"}, m \in Modes, cs \in BOOLEAN :
          \E fault \in Faults : \E written \in WrittenChoices(fault) :
             ApplyImportFile(folder, m, cs, fault, written)

CodecSpec == CodecInit /\ [][CodecNext]_vars

(***************************************************************************)
(* Discovery applied to a source root.                                     *)
(***************************************************************************)
DiscoveryInit ==
    /\ card \in Cards
    /\ found = NoFound
    /\ source = EmptyTree
    /\ dirs = {}
    /\ dest_files = EmptyTree
    /\ sidecars = EmptyTree
    /\ manifest = <<>>
    /\ files = <<>>
    /\ mode = "copy"
    /\ checksum_enabled = FALSE
    /\ pc = "idle"
    /\ i = 0
    /\ success_count = 0
    /\ skip_count = 0
    /\ errors = <<>>
    /\ progress = <<>>
    /\ results = <<>>
    /\ last = NoCall
    /\ imported = {}
    /\ calls = 0
    /\ faults = 0
    /\ prev = NoPrev
    /\ cancelled = FALSE
    /\ window = WindowAtStart
    /\ finished = <<>>
    /\ input_name = <<>>
    /\ codec = NoCodec

discovery_frame == <<engine_vars, files, mode, checksum_enabled, pc, i, success_count,
                     skip_count, errors, progress, results, calls, prev,
                     worker_vars, codec_vars, card>>

ApplyDiscoverFolders ==
    /\ found.op = "none"
    /\ found' = [NoFound EXCEPT !.op = "discover_folders", !.folders = discover_folders(card)]
    /\ UNCHANGED discovery_frame

ApplyDiscoverFiles(folder) ==
    /\ found.op = "none"
    /\ card.exists
    /\ folder \in DOMAIN card.entries
    /\ is_dir(card.entries, folder)
    /\ found' = [NoFound EXCEPT !.op = "discover_files", !.folder = folder,
                                !.files = discover_files(card, folder)]
    /\ UNCHANGED discovery_frame

ApplyDiscoverAllFiles ==
    /\ found.op = "none"
    /\ found' = [NoFound EXCEPT !.op = "discover_all_files",
                                !.folders = discover_folders(card),
                                !.files = discover_all_files(card)]
    /\ UNCHANGED discovery_frame

DiscoveryNext ==
    \/ ApplyDiscoverFolders
    \/ \E folder \in {FOLDER01, FOLDER02, RADIO01} : ApplyDiscoverFiles(folder)
    \/ ApplyDiscoverAllFiles

DiscoverySpec == DiscoveryInit /\ [][DiscoveryNext]_vars

(***************************************************************************)
(* Properties.                                                             *)
(***************************************************************************)
\* the step is one call of import_file
ImportFileStep == last'.n # last.n

\* the destination file of the latest import_file call
LastDest == DestPathOf[last.src[2]]

\* C1: a call of import_file never replaces or modifies a destination file
\* that exists: every destination file keeps its content in every step, and
\* a call that finds its destination file present returns
\* (False, "File already exists: <name>") and leaves the destination tree
\* and the source file as they were.
C1_NeverOverwrites ==
    [][/\ \A d \in DOMAIN dest_files :
            d \in DOMAIN dest_files' /\ dest_files'[d] = dest_files[d]
       /\ (ImportFileStep /\ DestPathOf[last'.src[2]] \in DOMAIN dest_files)
            => /\ ~last'.raised
               /\ ~last'.success
               /\ last'.message = MsgExists(last'.src[2])
               /\ dest_files' = dest_files
               /\ source' = source]_vars

\* C1 witness: a call found a destination file whose content differs from
\* the content of the source file it was given, and skipped it
C1_Witness ==
    /\ last.existed
    /\ last.outcome = "SkippedAlreadyExists"
    /\ last.src \in DOMAIN source
    /\ dest_files[LastDest] # source[last.src]

\* C3: an I/O error of the mkdir step does not leave import_file as an
\* exception: no call of import_file raises, so import_files never ends by
\* an exception.
C3_MkdirErrorIsCaught == ~last.raised /\ pc # "raised"

\* C5: when import_file returns success, in move mode the source file is
\* gone and the destination file holds the content the source had; in copy
\* mode the source is unchanged and the destination holds the same content.
C5_MoveAndCopySemantics ==
    [][(ImportFileStep /\ last'.success)
          => LET src == last'.src
                 d == DestPathOf[src[2]]
             IN  /\ src \in DOMAIN source
                 /\ d \in DOMAIN dest_files'
                 /\ dest_files'[d] = source[src]
                 /\ IF last'.mode = "move"
                    THEN src \notin DOMAIN source'
                    ELSE src \in DOMAIN source' /\ source'[src] = source[src]]_vars

\* C5 witness: a successful move, with the source gone and the destination there
C5_Witness ==
    /\ last.success
    /\ last.mode = "move"
    /\ last.src \notin DOMAIN source
    /\ LastDest \in DOMAIN dest_files

\* the destination paths of the recordings of the model
AllDestPaths == {DestPathOf[name] : name \in Names} \ {NoneValue}

\* the files of a run that ended with the given outcome
WithOutcome(rs, outcome) == {k \in DOMAIN rs : rs[k].outcome = outcome}

\* C2: an OSError of the copy or move of one file does not stop the batch:
\* the call returns to the loop, which goes on to the next file, and the
\* failing file adds exactly one message, its own, to the error list.
C2_TransferErrorIsolated ==
    [][(ImportFileStep /\ last'.fault \in {"transfer", "partial", "unlink"})
          => /\ pc' = "loop"
             /\ i' = i + 1
             /\ results'[i'].outcome = "Failed"
             /\ errors' = Append(errors, last'.message)]_vars

C6_ChecksumOnlyAfterTransfer ==
    [][(sidecars' # sidecars \/ manifest' # manifest)
          => LET src == last'.src
                 d == DestPathOf[src[2]]
             IN  /\ ImportFileStep
                 /\ last'.checksum_enabled
                 /\ d \notin DOMAIN dest_files
                 /\ src \in DOMAIN source
                 /\ d \in DOMAIN dest_files'
                 /\ dest_files'[d] = source[src]
                 /\ last'.mode = "move" => src \notin DOMAIN source'
                 /\ \A q \in DOMAIN sidecars : q \in DOMAIN sidecars'
                 /\ \A q \in DOMAIN sidecars' :
                        (q \notin DOMAIN sidecars \/ sidecars'[q] # sidecars[q])
                            => q = sidecar_path(d)
                 /\ \/ manifest' = manifest
                    \/ /\ Len(manifest') = Len(manifest) + 1
                       /\ SubSeq(manifest', 1, Len(manifest)) = manifest
                       /\ Contains(manifest'[Len(manifest')], <<" "," ">> \o d \o <<" "," ">>)]_vars

\* C6 witness: in a run with checksums one file was imported and has its
\* sidecar, and a broken transfer left a destination file without a sidecar
C6_Witness ==
    /\ checksum_enabled
    /\ \E a, b \in DOMAIN results :
          /\ results[a].outcome = "Imported"
          /\ sidecar_path(DestPathOf[results[a].src[2]]) \in DOMAIN sidecars
          /\ results[b].outcome = "Failed"
          /\ DestPathOf[results[b].src[2]] \in DOMAIN dest_files
          /\ sidecar_path(DestPathOf[results[b].src[2]]) \notin DOMAIN sidecars
          /\ manifest # <<>>

\* text starts with the digest followed by sep
DigestAtStart(text, digest, sep) ==
    SubSeq(text, 1, Len(digest) + Len(sep)) = digest \o sep

\* C7: for every file imported with checksums enabled, the digest of the
\* destination file is the digest at the start of its sidecar and at the
\* start of a manifest line for its path, and verify_sidecar gives True;
\* verify_sidecar gives None exactly for the files without a sidecar.
C7_ChecksumRoundTrip ==
    /\ \A k \in DOMAIN results :
          (checksum_enabled /\ results[k].outcome = "Imported")
             => LET d == DestPathOf[results[k].src[2]]
                    h == calculate_sha256(dest_files[d])
                IN  /\ sidecar_path(d) \in DOMAIN sidecars
                    /\ DigestAtStart(sidecars[sidecar_path(d)], h, <<" ","*">>)
                    /\ \E m \in DOMAIN manifest :
                          DigestAtStart(manifest[m], h, <<" "," ">> \o d \o <<" "," ">>)
                    /\ verify_sidecar(dest_files, sidecars, d) = "True"
    /\ \A d \in AllDestPaths :
          verify_sidecar(dest_files, sidecars, d) = "None"
             <=> sidecar_path(d) \notin DOMAIN sidecars

\* C7 witness: a file imported with checksums verifies against its sidecar
\* while another destination has no sidecar
C7_Witness ==
    /\ checksum_enabled
    /\ \E k \in DOMAIN results :
          /\ results[k].outcome = "Imported"
          /\ verify_sidecar(dest_files, sidecars, DestPathOf[results[k].src[2]]) = "True"
    /\ \E d \in AllDestPaths : verify_sidecar(dest_files, sidecars, d) = "None"

\* C8: when the import is run again over the same files, a file whose
\* import ended Failed in the run before is skipped as already existing only
\* if a call has imported its destination successfully; otherwise the run
\* attempts it again.
C8_FailedFileIsRetried ==
    \A k \in DOMAIN results :
        (prev.valid /\ prev.results[k].outcome = "Failed"
                    /\ results[k].outcome = "SkippedAlreadyExists")
            => DestPathOf[results[k].src[2]] \in imported

\* C9: progress_callback is invoked once per file, in the order of the
\* list, with (index, len(files), message of the file), and when
\* import_files has ended the indexes reported are 1..len(files).
C9_ProgressOncePerFile ==
    /\ Len(progress) = i
    /\ \A k \in DOMAIN progress :
          /\ results[k].src = files[k]
          /\ progress[k] = <<k, Len(files), results[k].message>>
    /\ pc \in {"returned", "raised"} => Len(progress) = Len(files)

\* C10: the error list holds the message of every file whose outcome is
\* Failed and no message of a file skipped because its destination exists.
C10_ErrorsAreTheFailedFiles ==
    \A k \in DOMAIN results :
        /\ results[k].outcome = "Failed"
              => \E e \in DOMAIN errors : errors[e] = results[k].message
        /\ results[k].outcome = "SkippedAlreadyExists"
              => \A e \in DOMAIN errors : errors[e] # results[k].message

\* C11: a run of the ImportWorker emits progress notifications and then
\* exactly one finished notification carrying (success_count, skip_count,
\* errors): finished is never emitted twice, it has been emitted whenever
\* run() has ended, whether the run was cancelled or a file failed, it
\* carries the counters of the run, and no progress is emitted after it.
C11_FinishedExactlyOnce ==
    /\ [](/\ Len(finished) <= 1
          /\ pc \in {"done", "raised"} => Len(finished) = 1
          /\ finished # <<>> => /\ pc = "done"
                                /\ finished[1] = <<success_count, skip_count, errors>>)
    /\ [][finished # <<>> => progress' = progress]_vars

\* C12: cancellation is cooperative.  A file whose import_file call is in
\* flight when cancel() is called is imported or fails, and is counted and
\* reported by a progress notification, before the loop stops; once the
\* worker has read the flag set it starts no file; and a destination file
\* that holds less than its source is left only by an I/O error of the copy.
C12_CancelIsCooperative ==
    [][/\ (pc = "call" /\ cancelled /\ pc' # "call")
            => /\ ImportFileStep
               /\ last'.src = files[i + 1]
               /\ i' = i + 1
               /\ success_count' + skip_count' = success_count + skip_count + 1
               /\ progress' = Append(progress, <<i + 1, Len(files), last'.message>>)
               /\ pc' = "top"
       /\ (pc = "top" /\ cancelled /\ pc' # "top") => pc' = "emit"
       /\ pc \in {"top", "emit", "done"}
            => UNCHANGED <<source, dirs, dest_files, sidecars, manifest, last, i, progress>>
       /\ \A d \in DOMAIN dest_files' :
            (d \notin DOMAIN dest_files /\ last'.fault # "partial")
                => dest_files'[d] = source[last'.src]]_vars

\* s is made of decimal digits only
AllDigits(s) == \A k \in 1..Len(s) : s[k] \in Digits

\* name has the form YYMMDD_HHMM*.ext with MM in 01..12 and DD in 01..31
ValidForm(name) ==
    /\ Len(name) >= 13
    /\ AllDigits(SubSeq(name, 1, 6))
    /\ name[7] = "_"
    /\ AllDigits(SubSeq(name, 8, 11))
    /\ DecimalValue(SubSeq(name, 3, 4)) \in 1..12
    /\ DecimalValue(SubSeq(name, 5, 6)) \in 1..31
    /\ \E p \in 12..(Len(name) - 1) : name[p] = "."
    /\ name[Len(name)] # "."

\* C13: for a filename of the form YYMMDD_HHMM*.ext with MM in 01..12 and
\* DD in 01..31, parse_filename gives (MM, DD) and get_dest_path gives
\* <MM-MonthName>/<DD>/<filename> under dest_base with the filename as it
\* is written, whatever the case of its extension; 240315_1430.mp3 goes to
\* 03-March/15/240315_1430.mp3.
C13_ValidNamesClassified ==
    /\ ValidForm(input_name) =>
          /\ codec.step >= 1 =>
                codec.parsed = <<SubSeq(input_name, 3, 4), SubSeq(input_name, 5, 6)>>
          /\ codec.step >= 3 =>
                codec.dest_path = MONTHS[SubSeq(input_name, 3, 4)] \o <<"/">>
                                    \o SubSeq(input_name, 5, 6) \o <<"/">> \o input_name
    /\ (input_name = Rec1430 /\ codec.step >= 3) =>
          codec.dest_path = <<"0","3","-","M","a","r","c","h","/","1","5","/">> \o Rec1430

\* C13 witness: a valid filename with an upper-case extension has been
\* parsed and given its destination path
C13_Witness ==
    /\ ValidForm(input_name)
    /\ Suffix(input_name) = <<".","M","P","3">>
    /\ codec.step = 3
    /\ codec.parsed # NoneValue
    /\ codec.dest_path # NoneValue

\* name fails a structural rule: stem shorter than 6 characters, no "_",
\* first segment not of 6 characters, date part not numeric, MM outside
\* 01..12 or DD outside 1..31
FailsStructuralRule(name) ==
    LET stem == Stem(name)
        date_part == SplitFirst(stem, <<"_">>)
    IN  \/ Len(stem) < 6
        \/ ~Contains(stem, <<"_">>)
        \/ Len(date_part) # 6
        \/ ~AllDigits(date_part)
        \/ DecimalValue(SubSeq(date_part, 3, 4)) \notin 1..12
        \/ DecimalValue(SubSeq(date_part, 5, 6)) \notin 1..31

\* C14: for a filename that fails a structural rule parse_filename returns
\* None, and every import_file call for a file of that name returns
\* (False, "Could not parse date from <name>") and raises nothing.
C14_BadNamesAreUnparseable ==
    FailsStructuralRule(input_name) =>
        /\ codec.step >= 1 => codec.parsed = NoneValue
        /\ last.n > 0 => /\ ~last.raised
                         /\ ~last.success
                         /\ last.outcome = "SkippedUnparseable"
                         /\ last.message = MsgUnparseable(input_name)

\* the names of the twelve month folders and of the day folders 01..31
MonthLabels == {MONTHS[m] : m \in DOMAIN MONTHS}

DayLabels == {d \in {<<a, b>> : a \in Digits, b \in Digits} :
                DecimalValue(d) \in 1..31}

\* C15: when parse_filename succeeds its month is one of the codes 01..12
\* and its day is two decimal digits of value 01..31, and every folder
\* import_file creates is one of the twelve month folders or a day folder
\* named 01..31 in one of them.
C15_MonthAndDayAreCanonical ==
    /\ (codec.step >= 1 /\ codec.parsed # NoneValue) =>
          /\ codec.parsed[1] \in DOMAIN MONTHS
          /\ codec.parsed[2] \in DayLabels
    /\ \A d \in dirs :
          /\ d[1] \in MonthLabels
          /\ Len(d) = 2 => d[2] \in DayLabels

\* C16: the destination of a file depends on its filename only: every call
\* of import_file for a file of that name, from either folder, in either
\* mode, with or without checksums, creates no destination file other than
\* get_dest_path(filename), finds that path present when it skips, leaves
\* it present when it succeeds, and reports the name unparseable exactly
\* when get_dest_path is None; and get_dest_path is None exactly when
\* parse_filename is None.
C16_DestPathIsFunctionOfName ==
    /\ [](codec.step >= 3 => (codec.dest_path = NoneValue <=> codec.parsed = NoneValue))
    /\ [][ImportFileStep =>
            /\ \A d \in DOMAIN dest_files' : d \in DOMAIN dest_files \/ d = codec.dest_path
            /\ \A q \in DOMAIN sidecars' :
                  q \in DOMAIN sidecars \/ q = sidecar_path(codec.dest_path)
            /\ last'.success => codec.dest_path \in DOMAIN dest_files'
            /\ last'.outcome = "SkippedAlreadyExists" => codec.dest_path \in DOMAIN dest_files
            /\ last'.outcome = "SkippedUnparseable" <=> codec.dest_path = NoneValue]_vars

\* C16 witness: the file of one folder was imported and the file of the
\* same name of the other folder, handed over in the other mode, found the
\* destination of the first
C16_Witness ==
    /\ Len(results) = 2
    /\ results[1].src[1] # results[2].src[1]
    /\ results[1].outcome = "Imported"
    /\ results[2].outcome = "SkippedAlreadyExists"
    /\ last.mode = "move"
    /\ <<"FOLDER01", input_name>> \in DOMAIN source
    /\ DOMAIN dest_files = {codec.dest_path}

\* C17: folder discovery on a source root that does not exist fails in a way
\* the caller sees: the call raises, or at least returns something that no
\* existing source root gives, so that a missing root is told apart from an
\* existing root without folders.
C17_MissingRootIsReported ==
    (found.op = "discover_folders" /\ ~card.exists)
        => \/ found.raised
           \/ \A c \in Cards : c.exists => discover_folders(c) # found.folders

\* the sequence of names is in strictly increasing lexicographic order
Increasing(names) ==
    \A k \in 1..(Len(names) - 1) : StrLess(names[k], names[k + 1])

\* C18: discover_folders returns the directories directly under the source
\* root except RADIO01, in lexicographic order of name; discover_all_files
\* returns no file of RADIO01, and returns the files of the folders found
\* folder by folder in the order of the folders.
C18_FoldersSortedWithoutRadio ==
    /\ (found.op = "discover_folders" /\ card.exists) =>
          /\ {found.folders[k] : k \in DOMAIN found.folders}
                = {item \in DOMAIN card.entries : card.entries[item].kind = "dir"} \ {RADIO01}
          /\ Increasing(found.folders)
    /\ found.op = "discover_all_files" =>
          /\ \A k \in DOMAIN found.files : found.files[k][1] # RADIO01
          /\ {found.files[k] : k \in DOMAIN found.files}
                = UNION {{discover_files(card, found.folders[f])[k] :
                             k \in DOMAIN discover_files(card, found.folders[f])} :
                         f \in DOMAIN found.folders}
          /\ \A k \in 1..(Len(found.files) - 1) :
                \/ StrLess(found.files[k][1], found.files[k + 1][1])
                \/ /\ found.files[k][1] = found.files[k + 1][1]
                   /\ StrLess(found.files[k][2], found.files[k + 1][2])

\* C18 witness: all files were discovered on a root that holds RADIO01
\* with a recording in it, and files of two other folders were returned
C18_Witness ==
    /\ found.op = "discover_all_files"
    /\ RADIO01 \in DOMAIN card.entries
    /\ card.entries[RADIO01].entries = ListingB
    /\ Len(found.folders) = 2
    /\ \E a, b \in DOMAIN found.files : found.files[a][1] # found.files[b][1]

\* name ends with one of the audio extensions, in any case, after a
\* non-empty stem
IsAudioName(name) ==
    \E ext \in AUDIO_EXTENSIONS :
        /\ Len(name) > Len(ext)
        /\ Lower(SubSeq(name, Len(name) - Len(ext) + 1, Len(name))) = ext

\* C19: discover_files(folder) returns exactly the entries of the folder
\* that are regular files with an extension among .mp3, .wav, .m4a, .wma
\* compared without regard to case, in lexicographic order of name.
C19_AudioFilesOnly ==
    found.op = "discover_files" =>
        LET entries == card.entries[found.folder].entries
        IN  /\ {found.files[k] : k \in DOMAIN found.files}
                  = {<<found.folder, item>> : item \in
                        {e \in DOMAIN entries : entries[e].kind = "file" /\ IsAudioName(e)}}
            /\ Increasing([k \in DOMAIN found.files |-> found.files[k][2]])

\* C19 witness: a folder holding a directory named like an audio file, a
\* file without extension and a file with an upper-case extension was
\* listed, and the upper-case file is among the three files returned
C19_Witness ==
    /\ found.op = "discover_files"
    /\ card.entries[found.folder].entries = ListingB
    /\ Len(found.files) = 3
    /\ \E k \in DOMAIN found.files : found.files[k][2] = <<"a",".","M","4","A">>

\* the stem has 11 characters or more, of which the first 6 and the 4 that
\* follow the "_" in 7th place hold no "_"
HasDateAndTime(stem) ==
    /\ Len(stem) >= 11
    /\ stem[7] = "_"
    /\ \A k \in (1..6) \cup (8..11) : stem[k] # "_"

\* C20: get_full_date_from_filename gives "20YY-MM-DD HH:MM" made of the 6
\* characters before the first "_" and the first 4 characters of the
\* second segment, whatever they are, and None when the stem has fewer
\* than 11 characters, no second segment, or parts that are not of 6 and 4
\* characters; 240315_1430.mp3 gives "2024-03-15 14:30".  Classification
\* does not depend on it: import_file reports a name unparseable exactly
\* when parse_filename rejects it, with or without a date string.
C20_FullDateIsDisplayOnly ==
    /\ codec.step >= 2 =>
          LET stem == Stem(input_name)
          IN  codec.full_date =
                IF HasDateAndTime(stem)
                THEN <<"2", "0", stem[1], stem[2], "-", stem[3], stem[4], "-",
                       stem[5], stem[6], " ", stem[8], stem[9], ":", stem[10], stem[11]>>
                ELSE NoneValue
    /\ (codec.step >= 2 /\ input_name = Rec1430) =>
          codec.full_date = <<"2","0","2","4","-","0","3","-","1","5"," ","1","4",":","3","0">>
    /\ last.n > 0 => (last.outcome = "SkippedUnparseable" <=> codec.parsed = NoneValue)
    /\ codec.step >= 3 => (codec.dest_path = NoneValue <=> codec.parsed = NoneValue)

\* C20 witness: a filename with a date string that parse_filename rejects
\* was reported unparseable by import_file
C20_Witness ==
    /\ codec.step = 3
    /\ codec.full_date = <<"2","0","2","4","-","9","9","-","9","9"," ","9","9",":","9","9">>
    /\ codec.parsed = NoneValue
    /\ last.outcome = "SkippedUnparseable"

\* the step is a call of import_file that ended by a broken copy or move
TransferFailed == last'.fault \in {"transfer", "partial", "unlink"}

\* C21: over the runs into one destination root the manifest only grows:
\* a step changes it only by adding one line at its end, each import_file
\* call that succeeds with checksums enabled adds exactly one line, and a
\* call that skips its file, whose copy or move fails, or that runs with
\* checksums disabled adds nothing.
C21_ManifestOnlyGrows ==
    [][/\ manifest' # manifest
            => /\ Len(manifest') = Len(manifest) + 1
               /\ SubSeq(manifest', 1, Len(manifest)) = manifest
               /\ ImportFileStep
               /\ last'.checksum_enabled
       /\ (ImportFileStep /\ last'.success /\ last'.checksum_enabled)
            => Len(manifest') = Len(manifest) + 1
       /\ (ImportFileStep /\ (\/ last'.outcome \in {"SkippedUnparseable", "SkippedAlreadyExists"}
                              \/ TransferFailed
                              \/ ~last'.checksum_enabled))
            => manifest' = manifest]_vars

\* C21 witness: the second run has added a line to the manifest that the
\* run before it left, in a run that also skipped or failed a file
C21_Witness ==
    /\ prev.valid
    /\ prev.manifest # <<>>
    /\ Len(manifest) = Len(prev.manifest) + 1
    /\ SubSeq(manifest, 1, Len(prev.manifest)) = prev.manifest
    /\ \E k \in DOMAIN results : results[k].outcome \in {"SkippedAlreadyExists", "Failed"}

\* C22: over the runs the sidecar of an imported file is written once: no
\* step removes a sidecar or changes its text, and a call that finds its
\* destination file present writes no sidecar.
C22_SidecarWrittenOnce ==
    [][/\ \A q \in DOMAIN sidecars : q \in DOMAIN sidecars' /\ sidecars'[q] = sidecars[q]
       /\ (ImportFileStep /\ DestPathOf[last'.src[2]] \in DOMAIN dest_files)
            => sidecars' = sidecars]_vars

\* C22 witness: a run with checksums enabled has skipped, as already
\* existing, a file whose sidecar the run before it wrote, and the file of
\* that name it was given has another content than the one imported
C22_Witness ==
    /\ prev.valid
    /\ checksum_enabled
    /\ last.outcome = "SkippedAlreadyExists"
    /\ sidecar_path(LastDest) \in DOMAIN prev.sidecars
    /\ sidecars = prev.sidecars
    /\ last.src \in DOMAIN source
    /\ source[last.src] # dest_files[LastDest]

\* "Could not parse date from ", as import_file writes it
CouldNotParse ==
    <<"C","o","u","l","d"," ","n","o","t"," ","p","a","r","s","e"," ",
      "d","a","t","e"," ","f","r","o","m"," ">>

\* C23: a call of import_file for a file whose name parse_filename rejects
\* changes nothing on the filesystem in either mode (no folder, no
\* destination file, no sidecar, no manifest line, the source file where
\* it was), raises nothing, and import_files counts the file as a skip and
\* reports "Could not parse date from <name>" for it to the callback.
C23_UnparseableChangesNothing ==
    [][(ImportFileStep /\ parse_filename(last'.src[2]) = NoneValue)
          => /\ UNCHANGED <<source, dirs, dest_files, sidecars, manifest>>
             /\ ~last'.raised
             /\ ~last'.success
             /\ last'.message = CouldNotParse \o last'.src[2]
             /\ success_count' = success_count
             /\ skip_count' = skip_count + 1
             /\ progress' = Append(progress, <<i + 1, Len(files), last'.message>>)]_vars

\* C23 witness: in move mode, with checksums, a file without a date in its
\* name was skipped after another file had been moved, and is still on the
\* recorder
C23_Witness ==
    /\ mode = "move"
    /\ checksum_enabled
    /\ last.outcome = "SkippedUnparseable"
    /\ last.src \in DOMAIN source
    /\ success_count = 1
    /\ skip_count = 1

\* the run was handed two files of the same name from different folders
\* and has processed both
SameNamePair ==
    /\ Len(files) = 2
    /\ Len(results) = 2
    /\ files[1][2] = files[2][2]
    /\ files[1][1] # files[2][1]

\* C24: a call of import_file that finds its destination file present
\* leaves the source file in place, in move mode too, and writes no sidecar
\* and no manifest line.  When a batch holds two files of the same name
\* from different folders and the first is imported, the second is skipped
\* as already existing and stays on the device, in move mode too; the first
\* is imported whenever the destination was empty and no I/O error occurs.
C24_ExistingDestinationKeepsSource ==
    /\ [][(ImportFileStep /\ DestPathOf[last'.src[2]] \in DOMAIN dest_files)
            => /\ last'.outcome = "SkippedAlreadyExists"
               /\ UNCHANGED <<source, dest_files, sidecars, manifest>>]_vars
    /\ [](SameNamePair =>
            /\ (calls = 1 /\ faults = 0 /\ ParsedNames[files[1][2]] # NoneValue)
                  => results[1].outcome = "Imported"
            /\ results[1].outcome = "Imported"
                  => /\ results[2].outcome = "SkippedAlreadyExists"
                     /\ files[2] \in DOMAIN source
                     /\ source[files[2]] = SourceTree[files[2]]
                     /\ dest_files[DestPathOf[files[1][2]]] = SourceTree[files[1]])

\* C24 witness: in move mode with checksums, of two files of the same name
\* the first was moved and the second was skipped and is still on the
\* device, with one sidecar and one manifest line written
C24_Witness ==
    /\ SameNamePair
    /\ mode = "move"
    /\ checksum_enabled
    /\ calls = 1
    /\ results[1].outcome = "Imported"
    /\ results[2].outcome = "SkippedAlreadyExists"
    /\ files[1] \notin DOMAIN source
    /\ files[2] \in DOMAIN source
    /\ Len(manifest) = 1
    /\ Cardinality(DOMAIN sidecars) = 1

\* C25: a source file is removed only by a call of import_file that returns
\* success: every call that returns (False, message), for a name that cannot
\* be parsed, an existing destination or an error during the transfer or the
\* checksum step, leaves the source tree as it was and creates no
\* destination file.
C25_FailureLeavesSourceAndNoDestination ==
    [][/\ source' # source => (ImportFileStep /\ last'.success)
       /\ (ImportFileStep /\ ~last'.raised /\ ~last'.success)
            => /\ source' = source
               /\ dest_files' = dest_files]_vars

\* C26: after every iteration of import_files and of ImportWorker.run,
\* success_count + skip_count is the number of files processed so far and
\* the error list is no longer than skip_count; when import_files has
\* returned the sum is len(files); the sum is the number of progress
\* notifications, also in a cancelled worker run, whose finished
\* notification carries these counters.
C26_CountersAccountForFiles ==
    /\ success_count + skip_count = i
    /\ i = Len(results)
    /\ i <= Len(files)
    /\ Len(errors) <= skip_count
    /\ pc = "returned" => success_count + skip_count = Len(files)
    /\ success_count + skip_count = Len(progress)
    /\ \A k \in DOMAIN progress : progress[k][1] = k
    /\ \A k \in DOMAIN finished :
          /\ finished[k][1] + finished[k][2] = Len(progress)
          /\ Len(finished[k][3]) <= finished[k][2]
          /\ ~cancelled => finished[k][1] + finished[k][2] = Len(files)

\* C26 witness: a worker run over two files was cancelled after the first,
\* which failed, and has emitted finished with one skip and one error
C26_Witness ==
    /\ cancelled
    /\ Len(files) = 2
    /\ finished = << <<0, 1, errors>> >>
    /\ Len(errors) = 1
    /\ Len(progress) = 1
    /\ i = 1

\* a worker is started
WorkerStarts == calls' = calls + 1

\* C27: at most one ImportWorker runs at any time.  A worker is started
\* only by _start_import, only with the Import button enabled and no worker
\* in run(), and the start disables the button; the button is enabled again
\* only by the delivery of a finished notification, so it is disabled
\* while a worker is in run() and until every finished notification has
\* been handled; while a handler of the window shows a dialog or the window
\* waits for the worker or is closed, no worker is started.
C27_AtMostOneWorker ==
    /\ [](WorkerRunning => ~window.import_btn)
    /\ [](window.import_btn => window.handled = Len(finished))
    /\ [][WorkerStarts => /\ ~WorkerRunning
                          /\ window.import_btn
                          /\ ~window'.import_btn
                          /\ window.phase = "open"
                          /\ Top(window.dialogs) \in {"none", "confirm"}
                          /\ window.handled = Len(finished)]_vars
    /\ [][(~window.import_btn /\ window'.import_btn)
            => /\ window'.handled = window.handled + 1
               /\ ~WorkerRunning]_vars

\* C27 witness: a second worker is in import_file, after the finished
\* notification of the first was handled, with the button disabled, while
\* the settings dialog is open
C27_Witness ==
    /\ calls = 2
    /\ pc = "call"
    /\ window.handled = 1
    /\ Len(finished) = 1
    /\ ~window.import_btn
    /\ window.dialogs = <<"settings">>

\* the manifest line is for destination file d and starts with the digest
\* that the sidecar of d holds
LineMatchesSidecar(line, d) ==
    /\ sidecar_path(d) \in DOMAIN sidecars
    /\ DigestAtStart(line, sidecar_expected_hash(sidecars[sidecar_path(d)]),
                     <<" "," ">> \o d \o <<" "," ">>)

\* C28: the checksum step writes the sidecar before it appends to the
\* manifest: every manifest line refers to a destination file that exists
\* and has a sidecar holding the digest of the line, so a manifest line
\* without its sidecar never exists; a step whose sidecar write fails adds
\* neither, and a step whose manifest append fails has written the sidecar.
C28_ManifestLineHasSidecar ==
    /\ [](\A m \in DOMAIN manifest :
            \E d \in DOMAIN dest_files : LineMatchesSidecar(manifest[m], d))
    /\ [][(ImportFileStep /\ last'.fault \in {"hash", "sidecar"})
            => (sidecars' = sidecars /\ manifest' = manifest)]_vars
    /\ [][(ImportFileStep /\ last'.fault = "manifest")
            => /\ manifest' = manifest
               /\ sidecar_path(DestPathOf[last'.src[2]]) \in DOMAIN sidecars'
               /\ sidecar_path(DestPathOf[last'.src[2]]) \notin DOMAIN sidecars]_vars

\* C28 witness: one file has its sidecar and its manifest line, and the
\* manifest append failed for another, which has its sidecar and no line
C28_Witness ==
    /\ Len(manifest) = 1
    /\ Cardinality(DOMAIN sidecars) = 2
    /\ last.fault = "manifest"
    /\ \E d \in DOMAIN dest_files : LineMatchesSidecar(manifest[1], d)
    /\ \E d \in DOMAIN dest_files :
          /\ sidecar_path(d) \in DOMAIN sidecars
          /\ ~LineMatchesSidecar(manifest[1], d)

====
